---------------------------- MODULE Spec2Model ----------------------------
(***************************************************************************)
(* memtrace-log-view: the scan of a memtrace log (src/main.rs, main) and   *)
(* the DataViewer document it builds.                                      *)
(*                                                                         *)
(* Text.  A text (a Rust String or &str) is a sequence of tokens, and a    *)
(* token is an indivisible piece of text: one decimal digit, one of the    *)
(* literals the program's patterns are made of, a word, the newline.  Two  *)
(* texts are equal exactly when their token sequences are equal, and       *)
(* concatenation is \o.  The empty line is << >>.                          *)
(*                                                                         *)
(* Numbers.  An f64 is the exact quotient the code computes, kept as a     *)
(* reduced fraction [num, den]; the integers of the model stay far below   *)
(* 2^53, where f64 division of two integers is a function of the quotient. *)
(* An i64 or u64 is an integer; the model's values stay far below 2^31.    *)
(***************************************************************************)
EXTENDS Integers, Sequences, FiniteSets, TLC

-----------------------------------------------------------------------------
(* Bounds of the model *)

\* The longest log scanned, in lines.
MaxLines == 6

-----------------------------------------------------------------------------
(* Text *)

Digit == {"0", "1", "2", "3", "4", "5", "6", "7", "8", "9"}

DigitVal(c) ==
  CASE c = "0" -> 0 [] c = "1" -> 1 [] c = "2" -> 2 [] c = "3" -> 3
    [] c = "4" -> 4 [] c = "5" -> 5 [] c = "6" -> 6 [] c = "7" -> 7
    [] c = "8" -> 8 [] c = "9" -> 9

DigitChar(n) ==
  CASE n = 0 -> "0" [] n = 1 -> "1" [] n = 2 -> "2" [] n = 3 -> "3"
    [] n = 4 -> "4" [] n = 5 -> "5" [] n = 6 -> "6" [] n = 7 -> "7"
    [] n = 8 -> "8" [] n = 9 -> "9"

\* str::parse of a non-empty run of decimal digits (src/main.rs 104, 166, 171).
RECURSIVE ParseUint(_)
ParseUint(s) ==
  IF s = << >> THEN 0
  ELSE 10 * ParseUint(SubSeq(s, 1, Len(s) - 1)) + DigitVal(s[Len(s)])

\* format!("{}", n) of an unsigned integer (src/main.rs 130, 132, 135).
RECURSIVE FormatUint(_)
FormatUint(n) ==
  IF n < 10 THEN <<DigitChar(n)>>
  ELSE FormatUint(n \div 10) \o <<DigitChar(n % 10)>>

\* str::strip_prefix: Some(rest) is [some |-> TRUE, rest |-> ...].
StripPrefix(text, prefix) ==
  IF Len(text) >= 1 /\ text[1] = prefix
  THEN [some |-> TRUE, rest |-> Tail(text)]
  ELSE [some |-> FALSE, rest |-> << >>]

\* The first index of the maximal run of digits that ends at index j.
RECURSIVE RunStart(_, _)
RunStart(text, j) ==
  IF j > 1 /\ text[j - 1] \in Digit THEN RunStart(text, j - 1) ELSE j

\* The last index of the maximal run of digits that starts at index i.
RECURSIVE RunEnd(_, _)
RunEnd(text, i) ==
  IF i < Len(text) /\ text[i + 1] \in Digit THEN RunEnd(text, i + 1) ELSE i

NoCaptures == [matched |-> FALSE, g1 |-> << >>, g2 |-> << >>]

\* Regex "(\d+) bytes" searched in a text (src/main.rs 101-103): the leftmost
\* match; group 1 is the whole run of digits in front of " bytes".
BytesPositions(text) ==
  {q \in 2..Len(text) : text[q] = " bytes" /\ text[q - 1] \in Digit}

BytesCaptures(text) ==
  IF BytesPositions(text) = {} THEN NoCaptures
  ELSE LET q == CHOOSE p \in BytesPositions(text) :
                  \A r \in BytesPositions(text) : p <= r
       IN [matched |-> TRUE,
           g1 |-> SubSeq(text, RunStart(text, q - 1), q - 1),
           g2 |-> << >>]

\* Regex "(\d+) allocs, (\d+) bytes were not free" searched in a line
\* (src/main.rs 151, 162): the leftmost match and its two groups.
MemcontextPositions(text) ==
  {p \in 2..Len(text) :
     /\ text[p] = " allocs, "
     /\ text[p - 1] \in Digit
     /\ p + 3 <= Len(text)
     /\ text[p + 1] \in Digit
     /\ LET e == RunEnd(text, p + 1)
        IN /\ e + 2 <= Len(text)
           /\ text[e + 1] = " bytes"
           /\ text[e + 2] = " were not free"}

MemcontextCaptures(text) ==
  IF MemcontextPositions(text) = {} THEN NoCaptures
  ELSE LET p == CHOOSE q \in MemcontextPositions(text) :
                  \A r \in MemcontextPositions(text) : q <= r
       IN [matched |-> TRUE,
           g1 |-> SubSeq(text, RunStart(text, p - 1), p - 1),
           g2 |-> SubSeq(text, p + 1, RunEnd(text, p + 1))]

-----------------------------------------------------------------------------
(* Numbers *)

RECURSIVE Gcd(_, _)
Gcd(a, b) == IF b = 0 THEN a ELSE Gcd(b, a % b)

Abs(n) == IF n < 0 THEN -n ELSE n

\* The f64 quotient n / d of two integers, d > 0.
Quot(n, d) ==
  LET g == Gcd(Abs(n), d)
  IN [num |-> n \div g, den |-> d \div g]

\* An integer as an f64.
Whole(n) == [num |-> n, den |-> 1]

-----------------------------------------------------------------------------
(* Dates: NaiveDateTime::parse_from_str(date, "%a %b %d %H:%M:%S %Y") and   *)
(* and_utc().timestamp() (src/main.rs 187-190), on dates written in the     *)
(* fixed-width form "Www Mmm DD HH:MM:SS YYYY".                             *)

Weekdays == <<"Sun", "Mon", "Tue", "Wed", "Thu", "Fri", "Sat">>

Months == <<"Jan", "Feb", "Mar", "Apr", "May", "Jun",
            "Jul", "Aug", "Sep", "Oct", "Nov", "Dec">>

IndexOf(seq, x) == CHOOSE i \in 1..Len(seq) : seq[i] = x

IsLeap(y) == (y % 4 = 0 /\ y % 100 # 0) \/ y % 400 = 0

DaysInMonth(y, m) ==
  IF m = 2 THEN (IF IsLeap(y) THEN 29 ELSE 28)
  ELSE IF m \in {4, 6, 9, 11} THEN 30 ELSE 31

\* Days from 1970-01-01 to the civil date y-m-d (proleptic Gregorian).
DaysFromCivil(y, m, d) ==
  LET yy  == IF m <= 2 THEN y - 1 ELSE y
      era == yy \div 400
      yoe == yy - era * 400
      mp  == IF m > 2 THEN m - 3 ELSE m + 9
      doy == (153 * mp + 2) \div 5 + d - 1
      doe == yoe * 365 + yoe \div 4 - yoe \div 100 + doy
  IN era * 146097 + doe - 719468

\* The text has the shape "%a %b %d %H:%M:%S %Y".
DateShape(date) ==
  /\ Len(date) = 20
  /\ \E i \in 1..7 : Weekdays[i] = date[1]
  /\ \E i \in 1..12 : Months[i] = date[3]
  /\ \A i \in {2, 4, 7, 16} : date[i] = " "
  /\ \A i \in {10, 13} : date[i] = ":"
  /\ \A i \in {5, 6, 8, 9, 11, 12, 14, 15, 17, 18, 19, 20} : date[i] \in Digit

\* Ok(timestamp) is [ok |-> TRUE, timestamp |-> ...]; Err is [ok |-> FALSE].
ParseDate(date) ==
  IF ~DateShape(date) THEN [ok |-> FALSE, timestamp |-> 0]
  ELSE LET wd  == IndexOf(Weekdays, date[1]) - 1
           mo  == IndexOf(Months, date[3])
           dd  == ParseUint(SubSeq(date, 5, 6))
           hh  == ParseUint(SubSeq(date, 8, 9))
           mi  == ParseUint(SubSeq(date, 11, 12))
           ss  == ParseUint(SubSeq(date, 14, 15))
           yr  == ParseUint(SubSeq(date, 17, 20))
           day == DaysFromCivil(yr, mo, dd)
       IN IF /\ dd >= 1 /\ dd <= DaysInMonth(yr, mo)
             /\ hh <= 23 /\ mi <= 59 /\ ss <= 59
             /\ (day + 4) % 7 = wd
          THEN [ok |-> TRUE,
                timestamp |-> day * 86400 + hh * 3600 + mi * 60 + ss]
          ELSE [ok |-> FALSE, timestamp |-> 0]

\* format!("Error parsing '{}'", date) (src/main.rs 189).
ParseErrorMessage(date) == <<"Error parsing '">> \o date \o <<"'">>

-----------------------------------------------------------------------------
(* The lines a log is made of *)

Header3x2000 == <<"3", " allocs, ", "2", "0", "0", "0", " bytes", " were not free">>

FooLine == <<"foo">>

BarLine == <<"bar">>

BlankLine == << >>

DateEpoch == <<"Thu", " ", "Jan", " ", "0", "1", " ", "0", "0", ":", "0", "0",
               ":", "0", "0", " ", "1", "9", "7", "0">>

DateBefore == <<"Wed", " ", "Dec", " ", "3", "1", " ", "2", "3", ":", "0", "0",
                ":", "0", "0", " ", "1", "9", "6", "9">>

Date2024 == <<"Mon", " ", "Jan", " ", "0", "1", " ", "0", "0", ":", "0", "0",
              ":", "0", "0", " ", "2", "0", "2", "4">>

Date2024Plus2h == <<"Mon", " ", "Jan", " ", "0", "1", " ", "0", "2", ":", "0", "0",
                    ":", "0", "0", " ", "2", "0", "2", "4">>

HeapSummary(date) == <<"HEAP SUMMARY ">> \o date

InUse(rest) == <<"    in use: ">> \o rest

InUseMillion == InUse(<<"1", "0", "0", "0", "0", "0", "0", " bytes">>)

InUseNoBytes == InUse(<<"none">>)

-----------------------------------------------------------------------------
(* The document: DataViewer and what it is made of (src/main.rs 21-76) *)

None == [some |-> FALSE, v |-> << >>]

Some(v) == [some |-> TRUE, v |-> v]

\* Chart::default()
ChartDefault == [title |-> None, description |-> None]

\* Memcontext::default()
MemcontextDefault == [allocs |-> 0, bytes |-> 0, callstack |-> << >>]

InuseKey == <<"inuse">>

\* HashMap::insert
Insert(map, key, value) ==
  [k \in DOMAIN map \cup {key} |-> IF k = key THEN value ELSE map[k]]

\* The pair put in front of the series, not at its end.
PushPairInFront(data, key, x, y) ==
  LET values == IF key \in DOMAIN data THEN data[key] ELSE << >>
  IN Insert(data, key, <<x, y>> \o values)

\* HashMap::entry(key).or_insert_with(|| vec![]) followed by two pushes.
PushPair(data, key, x, y) ==
  LET values == IF key \in DOMAIN data THEN data[key] ELSE << >>
  IN Insert(data, key, values \o <<x, y>>)

\* DataViewer::new
New ==
  [dataview |-> [type    |-> "XY",
                 title   |-> Some(<<"History of memory usage with Memtrace">>),
                 x_title |-> Some(<<"Elapsed Time">>),
                 x_unit  |-> Some(<<"Hour">>),
                 y_title |-> Some(<<"Memory in use">>),
                 y_unit  |-> Some(<<"KBytes">>),
                 x_min |-> None, x_max |-> None,
                 y_min |-> None, y_max |-> None,
                 description |-> None],
   chart |-> Insert(<< >>, InuseKey,
                    [ChartDefault EXCEPT
                       !.title = Some(<<"Total HEAP Memory in use">>)]),
   data  |-> << >>,
   info  |-> [uid_count |-> 0, uids |-> << >>]]

\* Kilobytes taken as binary ones.
KbytesBinary(bytes) == Quot(bytes, 1024)

\* bytes / 1000.0
Kbytes(bytes) == Quot(bytes, 1000)

\* (elapsed_sec as f64) / (60.0 * 60.0)
ElapsedHour(elapsed_sec) == Quot(elapsed_sec, 60 * 60)

\* add_inuse_summary taking a byte count it does not find as 0.
AddInuseSummaryLenient(me, elapsed_sec, inuse) ==
  LET captures == BytesCaptures(inuse)
      bytes    == IF captures.matched THEN ParseUint(captures.g1) ELSE 0
  IN [panic |-> FALSE,
      me |-> [me EXCEPT
                !.data = PushPair(@, InuseKey, Quot(elapsed_sec, 3600),
                                  Quot(bytes, 1000))]]

\* DataViewer::add_inuse_summary.  The unwrap of a search that found nothing
\* panics: [panic |-> TRUE], the document untouched.
AddInuseSummary(me, elapsed_sec, inuse) ==
  LET captures == BytesCaptures(inuse)
  IN IF ~captures.matched THEN [panic |-> TRUE, me |-> me]
     ELSE LET bytes        == ParseUint(captures.g1)
              kbytes       == Kbytes(bytes)
              elapsed_hour == ElapsedHour(elapsed_sec)
          IN [panic |-> FALSE,
              me |-> [me EXCEPT
                        !.data = PushPair(@, InuseKey, elapsed_hour, kbytes)]]

\* The closure without the increment of the counter.
RegisterCallstackNoCount(me, callstack) ==
  LET uid   == me.info.uid_count + 1
      chart == [ChartDefault EXCEPT
                  !.title = Some(<<"Memory Context with UID:">> \o FormatUint(uid)),
                  !.description = Some(callstack)]
  IN [me EXCEPT !.info.uids = Insert(@, callstack, uid),
                !.chart = Insert(@, FormatUint(uid), chart)]

\* The closure of or_insert_with in add_memcontext: a new uid and its chart.
RegisterCallstack(me, callstack) ==
  LET uid   == me.info.uid_count + 1
      chart == [ChartDefault EXCEPT
                  !.title = Some(<<"Memory Context with UID:">> \o FormatUint(uid)),
                  !.description = Some(callstack)]
  IN [me EXCEPT !.info.uid_count = uid,
                !.info.uids = Insert(@, callstack, uid),
                !.chart = Insert(@, FormatUint(uid), chart)]

\* add_memcontext registering the callstack without looking it up.
AddMemcontextNoLookup(me, elapsed_sec, memcontext) ==
  LET uid   == me.info.uid_count + 1
      chart == [ChartDefault EXCEPT
                  !.title = Some(<<"Memory Context with UID:">> \o FormatUint(uid)),
                  !.description = Some(memcontext.callstack)]
      entered == [me EXCEPT !.info.uid_count = uid,
                            !.info.uids = Insert(@, memcontext.callstack, uid),
                            !.chart = Insert(@, FormatUint(uid), chart)]
  IN [entered EXCEPT
        !.data = PushPair(@, FormatUint(uid),
                          Quot(elapsed_sec, 3600), Quot(memcontext.bytes, 1000))]

\* DataViewer::add_memcontext
AddMemcontext(me, elapsed_sec, memcontext) ==
  LET elapsed_hour == ElapsedHour(elapsed_sec)
      kbytes       == Kbytes(memcontext.bytes)
      entered      == IF memcontext.callstack \in DOMAIN me.info.uids THEN me
                      ELSE RegisterCallstack(me, memcontext.callstack)
      uid          == FormatUint(entered.info.uids[memcontext.callstack])
  IN [entered EXCEPT !.data = PushPair(@, uid, elapsed_hour, kbytes)]

\* add_memcontexts going through the contexts from the last to the first.
RECURSIVE AddMemcontextsNewestFirst(_, _, _)
AddMemcontextsNewestFirst(me, elapsed_sec, memcontexts) ==
  IF memcontexts = << >> THEN me
  ELSE AddMemcontextsNewestFirst(
         AddMemcontext(me, elapsed_sec, memcontexts[Len(memcontexts)]),
         elapsed_sec, SubSeq(memcontexts, 1, Len(memcontexts) - 1))

\* DataViewer::add_memcontexts
RECURSIVE AddMemcontexts(_, _, _)
AddMemcontexts(me, elapsed_sec, memcontexts) ==
  IF memcontexts = << >> THEN me
  ELSE AddMemcontexts(AddMemcontext(me, elapsed_sec, Head(memcontexts)),
                      elapsed_sec, Tail(memcontexts))

\* What DataViewer::write serialises: info is #[serde(skip)].
Document(me) == [dataview |-> me.dataview, chart |-> me.chart, data |-> me.data]

-----------------------------------------------------------------------------
(* The scan: main (src/main.rs 145-204) *)

VARIABLES
  log,            \* the lines of the file read so far, in file order
  pc,             \* "scan", or how main ended: "done", "error", "panic"
  dataviewer,     \* the document being built
  memcontext,     \* the context block being accumulated
  memcontexts,    \* the completed contexts awaiting the next in-use line
  in_memcontext,  \* a context block is open
  timestamp,      \* the timestamp of the last snapshot parsed
  min_ts,         \* the baseline of elapsed time, 0 while unset
  error,          \* the message of the error main returned, if any
  fileout,        \* the document written to <file>.log.toml, if any
  emitted,        \* history: every sample pushed, in the order of the pushes
  first,          \* how an earlier run over the same file ended, if there was one
  pos             \* the lines of the file this run has read

vars == <<log, pc, dataviewer, memcontext, memcontexts, in_memcontext,
          timestamp, min_ts, error, fileout, emitted, first, pos>>

\* The elapsed time taken from the epoch, not from the baseline.
ElapsedSinceEpoch(ts, baseline) == ts

\* The elapsed time taken backwards, from the timestamp to the baseline.
ElapsedBackwards(ts, baseline) == baseline - ts

\* let elapsed = timestamp - min_ts
Elapsed(ts, baseline) == ts - baseline

\* The baseline kept as the earliest timestamp seen.
BaselineEarliest(baseline, ts) ==
  IF baseline = 0 \/ ts < baseline THEN ts ELSE baseline

\* if min_ts == 0 { min_ts = timestamp; }
Baseline(baseline, ts) == IF baseline = 0 THEN ts ELSE baseline

\* The accumulator closing a block without the newline of its blank line.
AccumulateBareTerminator(mc, mcs, inside, line) ==
  LET captures == MemcontextCaptures(line)
  IN IF captures.matched
     THEN [memcontext    |-> [mc EXCEPT !.allocs = ParseUint(captures.g1),
                                        !.bytes  = ParseUint(captures.g2)],
           memcontexts   |-> mcs,
           in_memcontext |-> TRUE,
           skip          |-> FALSE]
     ELSE IF inside
     THEN IF line = << >>
          THEN [memcontext    |-> MemcontextDefault,
                memcontexts   |-> Append(mcs, mc),
                in_memcontext |-> FALSE,
                skip          |-> TRUE]
          ELSE [memcontext    |-> [mc EXCEPT !.callstack = (@ \o line) \o <<"\n">>],
                memcontexts   |-> mcs,
                in_memcontext |-> TRUE,
                skip          |-> TRUE]
     ELSE [memcontext |-> mc, memcontexts |-> mcs, in_memcontext |-> inside,
           skip |-> FALSE]

\* The accumulator letting the body of a block go on to the prefix tests.
AccumulateBodyFallsThrough(mc, mcs, inside, line) ==
  LET captures == MemcontextCaptures(line)
  IN IF captures.matched
     THEN [memcontext    |-> [mc EXCEPT !.allocs = ParseUint(captures.g1),
                                        !.bytes  = ParseUint(captures.g2)],
           memcontexts   |-> mcs,
           in_memcontext |-> TRUE,
           skip          |-> FALSE]
     ELSE IF inside
     THEN LET grown == [mc EXCEPT !.callstack = (@ \o line) \o <<"\n">>]
          IN IF line = << >>
             THEN [memcontext    |-> MemcontextDefault,
                   memcontexts   |-> Append(mcs, grown),
                   in_memcontext |-> FALSE,
                   skip          |-> TRUE]
             ELSE [memcontext    |-> grown,
                   memcontexts   |-> mcs,
                   in_memcontext |-> TRUE,
                   skip          |-> FALSE]
     ELSE [memcontext |-> mc, memcontexts |-> mcs, in_memcontext |-> inside,
           skip |-> FALSE]

\* Lines 162-184: the header and the body of a context block.  skip is the
\* continue of the loop; without it the line goes on to the prefix tests.
Accumulate(mc, mcs, inside, line) ==
  LET captures == MemcontextCaptures(line)
  IN IF captures.matched
     THEN [memcontext    |-> [mc EXCEPT !.allocs = ParseUint(captures.g1),
                                        !.bytes  = ParseUint(captures.g2)],
           memcontexts   |-> mcs,
           in_memcontext |-> TRUE,
           skip          |-> FALSE]
     ELSE IF inside
     THEN LET grown == [mc EXCEPT !.callstack = (@ \o line) \o <<"\n">>]
          IN IF line = << >>
             THEN [memcontext    |-> MemcontextDefault,
                   memcontexts   |-> Append(mcs, grown),
                   in_memcontext |-> FALSE,
                   skip          |-> TRUE]
             ELSE [memcontext    |-> grown,
                   memcontexts   |-> mcs,
                   in_memcontext |-> TRUE,
                   skip          |-> TRUE]
     ELSE [memcontext |-> mc, memcontexts |-> mcs, in_memcontext |-> inside,
           skip |-> FALSE]

\* The snapshot step passing over a date that does not parse.
SnapshotSkippingBadDate(ts, baseline, line) ==
  LET date   == StripPrefix(line, "HEAP SUMMARY ")
      parsed == ParseDate(date.rest)
  IN IF date.some /\ parsed.ok
     THEN [failed |-> FALSE, message |-> << >>,
           timestamp |-> parsed.timestamp,
           min_ts |-> IF baseline = 0 THEN parsed.timestamp ELSE baseline]
     ELSE [failed |-> FALSE, message |-> << >>,
           timestamp |-> ts, min_ts |-> baseline]

\* Lines 186-194: a line with the prefix "HEAP SUMMARY ".
Snapshot(ts, baseline, line) ==
  LET date == StripPrefix(line, "HEAP SUMMARY ")
  IN IF ~date.some
     THEN [failed |-> FALSE, message |-> << >>,
           timestamp |-> ts, min_ts |-> baseline]
     ELSE LET parsed == ParseDate(date.rest)
          IN IF ~parsed.ok
             THEN [failed |-> TRUE, message |-> ParseErrorMessage(date.rest),
                   timestamp |-> ts, min_ts |-> baseline]
             ELSE [failed |-> FALSE, message |-> << >>,
                   timestamp |-> parsed.timestamp,
                   min_ts |-> Baseline(baseline, parsed.timestamp)]

\* The documents after each call of an in-use event, in the order of the
\* calls: add_inuse_summary, then add_memcontext for each pending context.
RECURSIVE CallChain(_, _, _)
CallChain(me, elapsed_sec, mcs) ==
  IF mcs = << >> THEN <<me>>
  ELSE <<me>> \o CallChain(AddMemcontext(me, elapsed_sec, Head(mcs)),
                           elapsed_sec, Tail(mcs))

\* The sample a call pushed: the call and its arguments, the series that
\* grew and the pair at its end, and whether the call made a chart entry.
Pushed(before, after, at, call, elapsed_sec, inuse, mc) ==
  LET key == CHOOSE k \in DOMAIN after.data :
               \/ k \notin DOMAIN before.data
               \/ Len(after.data[k]) > Len(before.data[k])
      n   == Len(after.data[key])
  IN [call |-> call, elapsed_sec |-> elapsed_sec, inuse |-> inuse,
      memcontext |-> mc, line |-> at,
      key |-> key, x |-> after.data[key][n - 1], y |-> after.data[key][n],
      created |-> key \notin DOMAIN before.chart]

\* Lines 195-200: a line with the prefix "    in use: ".
InUseEvent(me, mcs, ts, baseline, line, at) ==
  LET inuse == StripPrefix(line, "    in use: ")
  IN IF ~inuse.some
     THEN [panic |-> FALSE, dataviewer |-> me, memcontexts |-> mcs,
           pushed |-> << >>]
     ELSE LET elapsed == Elapsed(ts, baseline)
              summary == AddInuseSummary(me, elapsed, inuse.rest)
          IN IF summary.panic
             THEN [panic |-> TRUE, dataviewer |-> me, memcontexts |-> mcs,
                   pushed |-> << >>]
             ELSE LET chain == CallChain(summary.me, elapsed, mcs)
                  IN [panic |-> FALSE,
                      dataviewer  |-> AddMemcontexts(summary.me, elapsed, mcs),
                      memcontexts |-> << >>,
                      pushed |->
                        <<Pushed(me, summary.me, at, "add_inuse_summary",
                                 elapsed, inuse.rest, MemcontextDefault)>> \o
                        [i \in 1..Len(mcs) |->
                           Pushed(chain[i], chain[i + 1], at, "add_memcontext",
                                  elapsed, << >>, mcs[i])]]

Init ==
  /\ log = << >>
  /\ pc = "scan"
  /\ dataviewer = New
  /\ memcontext = MemcontextDefault
  /\ memcontexts = << >>
  /\ in_memcontext = FALSE
  /\ timestamp = 0
  /\ min_ts = 0
  /\ error = None
  /\ fileout = None
  /\ emitted = << >>
  /\ first = None
  /\ pos = 0

\* One turn of the loop over the lines (src/main.rs 159-201) on the line
\* numbered at.
ScanLine(line, at) ==
  LET acc == Accumulate(memcontext, memcontexts, in_memcontext, line)
  IN /\ memcontext' = acc.memcontext
     /\ in_memcontext' = acc.in_memcontext
     /\ IF acc.skip
        THEN /\ memcontexts' = acc.memcontexts
             /\ UNCHANGED <<pc, dataviewer, timestamp, min_ts, error, emitted>>
        ELSE LET snap == Snapshot(timestamp, min_ts, line)
             IN IF snap.failed
                THEN /\ pc' = "error"
                     /\ error' = Some(snap.message)
                     /\ memcontexts' = acc.memcontexts
                     /\ UNCHANGED <<dataviewer, timestamp, min_ts, emitted>>
                ELSE LET event == InUseEvent(dataviewer, acc.memcontexts,
                                             snap.timestamp, snap.min_ts,
                                             line, at)
                     IN /\ timestamp' = snap.timestamp
                        /\ min_ts' = snap.min_ts
                        /\ pc' = IF event.panic THEN "panic" ELSE "scan"
                        /\ dataviewer' = event.dataviewer
                        /\ memcontexts' = event.memcontexts
                        /\ emitted' = emitted \o event.pushed
                        /\ UNCHANGED error

\* The run reads the next line of a file not read before.
ProcessLine(line) ==
  /\ pc = "scan"
  /\ ~first.some
  /\ Len(log) < MaxLines
  /\ log' = Append(log, line)
  /\ pos' = pos + 1
  /\ ScanLine(line, pos + 1)
  /\ UNCHANGED <<fileout, first>>

\* An end of the input that first dispatches what is left: the pending
\* contexts and the block still open.
EndOfInputFlushing ==
  /\ pc = "scan"
  /\ pos = Len(log)
  /\ pc' = "done"
  /\ dataviewer' =
       AddMemcontexts(dataviewer, Elapsed(timestamp, min_ts),
                      memcontexts \o (IF in_memcontext THEN <<memcontext>>
                                      ELSE << >>))
  /\ fileout' = Some(Document(dataviewer'))
  /\ UNCHANGED <<log, memcontext, memcontexts, in_memcontext,
                 timestamp, min_ts, error, emitted, first, pos>>

\* The end of the input: dataviewer.write(&fileout) (src/main.rs 203).
EndOfInput ==
  /\ pc = "scan"
  /\ pos = Len(log)
  /\ pc' = "done"
  /\ fileout' = Some(Document(dataviewer))
  /\ UNCHANGED <<log, dataviewer, memcontext, memcontexts, in_memcontext,
                 timestamp, min_ts, error, emitted, first, pos>>

\* A start that keeps the uid counter of the run before.
StartDocumentKeepingCounter(previous) ==
  [New EXCEPT !.info.uid_count = previous.info.uid_count]

\* The document a run starts from (src/main.rs 150): nothing of the process
\* that ran before, whose document was previous, is carried over.
StartDocument(previous) == New

\* The program is run again on the same file (src/main.rs 146-156).
RunAgain ==
  /\ pc # "scan"
  /\ ~first.some
  /\ first' = Some([pc |-> pc, error |-> error, fileout |-> fileout,
                    dataviewer |-> dataviewer, emitted |-> emitted])
  /\ pc' = "scan"
  /\ pos' = 0
  /\ dataviewer' = StartDocument(dataviewer)
  /\ memcontext' = MemcontextDefault
  /\ memcontexts' = << >>
  /\ in_memcontext' = FALSE
  /\ timestamp' = 0
  /\ min_ts' = 0
  /\ error' = None
  /\ emitted' = << >>
  /\ UNCHANGED <<log, fileout>>

\* The second run reads the next line of the file.
ReadAgain ==
  /\ pc = "scan"
  /\ first.some
  /\ pos < Len(log)
  /\ pos' = pos + 1
  /\ ScanLine(log[pos + 1], pos + 1)
  /\ UNCHANGED <<log, fileout, first>>

\* A scan of a log made of the given lines.
Scan(lines) ==
  \/ \E line \in lines : ProcessLine(line)
  \/ EndOfInput

\* Logs of snapshots, in-use lines and context blocks.
Lines ==
  {Header3x2000, FooLine, BlankLine, HeapSummary(Date2024),
   HeapSummary(Date2024Plus2h), InUseMillion}

Next == Scan(Lines)

Spec == Init /\ [][Next]_vars

\* Logs of one context block and what may surround it.
LinesBlock ==
  {Header3x2000, FooLine, BarLine, BlankLine, InUseMillion,
   HeapSummary(Date2024)}

NextBlock == Scan(LinesBlock)

SpecBlock == Init /\ [][NextBlock]_vars

\* Logs whose snapshots are at, before and after the epoch.
LinesTime ==
  {HeapSummary(DateEpoch), HeapSummary(DateBefore), HeapSummary(Date2024),
   InUseMillion, Header3x2000, BlankLine}

NextTime == Scan(LinesTime)

SpecTime == Init /\ [][NextTime]_vars

\* Logs with malformed lines and with lines of more than one category.
LinesOdd ==
  {Header3x2000, BlankLine, InUseMillion, HeapSummary(Date2024),
   HeapSummary(<<"garbage">>), HeapSummary(Header3x2000),
   InUse(Header3x2000), InUseNoBytes}

NextOdd == Scan(LinesOdd)

SpecOdd == Init /\ [][NextOdd]_vars

\* Two runs over the same file.
LinesTwice ==
  {Header3x2000, FooLine, BlankLine, InUseMillion, HeapSummary(Date2024)}

NextTwice ==
  \/ Scan(LinesTwice)
  \/ RunAgain
  \/ ReadAgain

SpecTwice == Init /\ [][NextTwice]_vars

\* Logs whose snapshots are at the epoch and at two later times.
LinesClock ==
  {HeapSummary(DateEpoch), HeapSummary(Date2024), HeapSummary(Date2024Plus2h),
   InUseMillion, Header3x2000, BlankLine}

NextClock == Scan(LinesClock)

SpecClock == Init /\ [][NextClock]_vars

\* Logs with in-use lines that have a byte count and that have none.
LinesAbort ==
  {Header3x2000, BlankLine, InUseMillion, InUseNoBytes, HeapSummary(Date2024)}

NextAbort == Scan(LinesAbort)

SpecAbort == Init /\ [][NextAbort]_vars

-----------------------------------------------------------------------------
(* What the claims speak of: the category of each line of the log read,     *)
(* by the priority rules of the line classifier, and the samples recorded.  *)

IsHeaderLine(line) == MemcontextCaptures(line).matched

\* The categories of the lines, in order, and whether a context block is
\* open after them.  The first rule that matches a line wins; a header opens
\* a block and the blank line closes it.
RECURSIVE Classified(_)
Classified(lines) ==
  IF lines = << >> THEN [open |-> FALSE, categories |-> << >>]
  ELSE LET before == Classified(SubSeq(lines, 1, Len(lines) - 1))
           last   == lines[Len(lines)]
           header == IsHeaderLine(last)
           category ==
             IF header THEN "memory-context-header"
             ELSE IF before.open THEN "memory-context-body"
             ELSE IF StripPrefix(last, "HEAP SUMMARY ").some THEN "snapshot-timestamp"
             ELSE IF StripPrefix(last, "    in use: ").some THEN "in-use-summary"
             ELSE "ignored"
       IN [open |-> header \/ (before.open /\ last # << >>),
           categories |-> Append(before.categories, category)]

\* The category of line i.
Category(lines, i) == Classified(lines).categories[i]

LinesOf(lines, category) ==
  LET categories == Classified(lines).categories
  IN {i \in 1..Len(lines) : categories[i] = category}

\* The lines this run has read.
Read == SubSeq(log, 1, pos)

\* The series of a key, empty while the key has no data.
Series(key) ==
  IF key \in DOMAIN dataviewer.data THEN dataviewer.data[key] ELSE << >>

\* The scan is going on or came to the end of the input without an error.
NoError == pc \in {"scan", "done"}

\* C1: when the scan completes without error, the "inuse" series holds
\* exactly two values for each in-use-summary line of the log, an
\* in-use-summary line being one the priority rules classify so (neither a
\* context header nor the body of an open block).
C1_InuseLength ==
  pc = "done" =>
    Len(Series(InuseKey)) = 2 * Cardinality(LinesOf(Read, "in-use-summary"))

\* C10: a line matching the header pattern is processed as a header only: it
\* leaves timestamp, min_ts, every series, the chart, the registry and the
\* pending list as they were and raises no error, whatever its prefix.
C10_HeaderOnly ==
  [][(pos' = pos + 1 /\ IsHeaderLine(log'[pos']))
       => /\ timestamp' = timestamp
          /\ min_ts' = min_ts
          /\ dataviewer' = dataviewer
          /\ memcontexts' = memcontexts
          /\ emitted' = emitted
          /\ error' = error
          /\ pc' = "scan"]_vars

-----------------------------------------------------------------------------
(* The samples of context records *)

\* The pushes of add_memcontext, by their place in the history.
Dispatched == {i \in 1..Len(emitted) : emitted[i].call = "add_memcontext"}

CallstackOf(i) == emitted[i].memcontext.callstack

Callstacks == {CallstackOf(i) : i \in Dispatched}

\* The dispatches of one callstack text.
DispatchesOf(callstack) == {i \in Dispatched : CallstackOf(i) = callstack}

FirstDispatchOf(callstack) ==
  CHOOSE i \in DispatchesOf(callstack) : \A j \in DispatchesOf(callstack) : i <= j

\* k when the callstack is the k-th distinct text dispatched.
OrderOf(callstack) ==
  Cardinality({CallstackOf(i) :
                 i \in {j \in Dispatched : j <= FirstDispatchOf(callstack)}})

\* C2: two dispatched context records with the same callstack text resolve
\* the same uid, the chart entry is made by the first of them only, and the
\* series of that uid holds one pair for each; records with different
\* callstack text never share a uid.
C2_SameCallstackSameUid ==
  \A i \in Dispatched :
    /\ emitted[i].key = FormatUint(dataviewer.info.uids[CallstackOf(i)])
    /\ emitted[i].created <=> i = FirstDispatchOf(CallstackOf(i))
    /\ Len(Series(emitted[i].key)) = 2 * Cardinality(DispatchesOf(CallstackOf(i)))
    /\ \A j \in Dispatched :
         (CallstackOf(i) = CallstackOf(j)) <=> (emitted[i].key = emitted[j].key)

\* Two records with the same callstack text were dispatched by two different
\* in-use lines, and their series holds the two pairs.
C2_Witness ==
  \E i, j \in Dispatched :
    /\ i < j
    /\ CallstackOf(i) = CallstackOf(j)
    /\ emitted[i].line # emitted[j].line
    /\ emitted[i].key = emitted[j].key
    /\ Len(Series(emitted[i].key)) = 4

\* C7: the k-th distinct callstack text dispatched has uid k, counted from 1,
\* and in every later state its binding, its chart entry (the title with the
\* uid, the callstack as description) and its series key are still there.
C7_UidsInFirstSeenOrder ==
  /\ dataviewer.info.uid_count = Cardinality(Callstacks)
  /\ DOMAIN dataviewer.info.uids = Callstacks
  /\ DOMAIN dataviewer.chart =
       {InuseKey} \cup {FormatUint(k) : k \in 1..Cardinality(Callstacks)}
  /\ \A callstack \in Callstacks :
       LET uid == OrderOf(callstack)
       IN /\ dataviewer.info.uids[callstack] = uid
          /\ FormatUint(uid) \in DOMAIN dataviewer.data
          /\ dataviewer.chart[FormatUint(uid)] =
               [title       |-> Some(<<"Memory Context with UID:">> \o FormatUint(uid)),
                description |-> Some(callstack)]
          /\ \A i \in DispatchesOf(callstack) : emitted[i].key = FormatUint(uid)

\* Two callstack texts were dispatched, the second got uid 2, and the scan
\* went on to the end of the input.
C7_Witness ==
  /\ pc = "done"
  /\ dataviewer.info.uid_count = 2
  /\ dataviewer.chart[<<"1">>].description = Some(<<"\n">>)
  /\ dataviewer.chart[<<"2">>].description = Some(<<"foo", "\n", "\n">>)
  /\ \E i \in Dispatched : emitted[i].key = <<"2">>

\* The byte count a push was called with.
BytesOf(e) ==
  IF e.call = "add_inuse_summary" THEN ParseUint(BytesCaptures(e.inuse).g1)
  ELSE e.memcontext.bytes

\* The pairs pushed to a key, in the order of the pushes.
RECURSIVE PairsOf(_, _)
PairsOf(history, key) ==
  IF history = << >> THEN << >>
  ELSE PairsOf(SubSeq(history, 1, Len(history) - 1), key) \o
       (IF history[Len(history)].key = key
        THEN <<history[Len(history)].x, history[Len(history)].y>>
        ELSE << >>)

\* C8: every pair pushed by add_inuse_summary or add_memcontext is
\* (elapsed seconds / 3600, bytes / 1000): 1,000,000 bytes are 1000.0 and
\* 7200 seconds are 2.0.
C8_UnitConversions ==
  /\ \A key \in DOMAIN dataviewer.data : dataviewer.data[key] = PairsOf(emitted, key)
  /\ \A i \in 1..Len(emitted) :
       LET e == emitted[i]
       IN /\ e.x = Quot(e.elapsed_sec, 3600)
          /\ e.y = Quot(BytesOf(e), 1000)
          /\ BytesOf(e) = 1000000 => e.y = Whole(1000)
          /\ e.elapsed_sec = 7200 => e.x = Whole(2)

\* An in-use line of 1,000,000 bytes and a context of 2000 bytes were both
\* recorded 7200 seconds after the baseline.
C8_Witness ==
  /\ \E i \in 1..Len(emitted) :
       /\ emitted[i].call = "add_inuse_summary"
       /\ emitted[i].elapsed_sec = 7200
       /\ BytesOf(emitted[i]) = 1000000
       /\ Series(InuseKey) = <<Whole(2), Whole(1000)>>
  /\ \E i \in Dispatched :
       /\ emitted[i].elapsed_sec = 7200
       /\ emitted[i].memcontext.bytes = 2000
       /\ Series(emitted[i].key) = <<Whole(2), Whole(2)>>

-----------------------------------------------------------------------------
(* Snapshots and elapsed time *)

\* The date of each line parsed, for the snapshot-timestamp lines among them.
RECURSIVE Stamps(_, _)
Stamps(lines, categories) ==
  IF lines = << >> THEN << >>
  ELSE Append(Stamps(SubSeq(lines, 1, Len(lines) - 1), categories),
              IF categories[Len(lines)] = "snapshot-timestamp"
              THEN ParseDate(Tail(lines[Len(lines)]))
              ELSE [ok |-> FALSE, timestamp |-> 0])

StampsRead == Stamps(Read, Classified(Read).categories)

\* The timestamp parsed last in the first n lines, 0 before the first.
LastParsed(stamps, n) ==
  LET set == {i \in 1..n : stamps[i].ok}
  IN IF set = {} THEN 0
     ELSE stamps[CHOOSE i \in set : \A j \in set : j <= i].timestamp

\* The first timestamp parsed in the first n lines that is not 0, 0 before it.
BaselineOf(stamps, n) ==
  LET set == {i \in 1..n : stamps[i].ok /\ stamps[i].timestamp # 0}
  IN IF set = {} THEN 0
     ELSE stamps[CHOOSE i \in set : \A j \in set : i <= j].timestamp

\* C3: every sample recorded after the first snapshot-timestamp line and
\* before the second has x = 0.0, whatever the timestamp of that snapshot.
C3_FirstSnapshotAtZero ==
  LET snapshots == LinesOf(Read, "snapshot-timestamp")
  IN \A i \in 1..Len(emitted) :
       Cardinality({k \in snapshots : k <= emitted[i].line}) = 1
         => emitted[i].x = Whole(0)

\* The first snapshot is before the epoch, and an in-use line after it has
\* recorded the "inuse" sample and the sample of a context at x = 0.0.
C3_Witness ==
  /\ timestamp < 0
  /\ Cardinality(LinesOf(Read, "snapshot-timestamp")) = 1
  /\ Len(Series(InuseKey)) = 2
  /\ Series(InuseKey)[1] = Whole(0)
  /\ \E i \in Dispatched : emitted[i].x = Whole(0)

\* C4: min_ts is 0 until the first snapshot-timestamp line whose timestamp is
\* not 0, is that timestamp from that line on, whatever follows, and every
\* elapsed value is the timestamp parsed last minus that baseline.
C4_BaselineSetOnce ==
  LET stamps == StampsRead
  IN /\ min_ts = BaselineOf(stamps, pos)
     /\ timestamp = LastParsed(stamps, pos)
     /\ \A i \in 1..Len(emitted) :
          emitted[i].elapsed_sec = LastParsed(stamps, emitted[i].line)
                                     - BaselineOf(stamps, emitted[i].line)

\* A snapshot at the epoch left min_ts unset, the next one set it, and a
\* later, earlier snapshot did not change it: the elapsed value is negative.
C4_Witness ==
  /\ pos >= 4
  /\ Read[1] = HeapSummary(DateEpoch)
  /\ min_ts = 1704067200
  /\ timestamp = -3600
  /\ \E i \in 1..Len(emitted) : emitted[i].elapsed_sec = -3600 - 1704067200

-----------------------------------------------------------------------------
(* The scenario of one context block *)

\* The log read ends with the block (header, "foo", "bar", blank line) and an
\* in-use-summary line, and no header comes before the block.
ScenarioScanned ==
  /\ NoError
  /\ pos >= 5
  /\ SubSeq(Read, pos - 4, pos - 1) = <<Header3x2000, FooLine, BarLine, BlankLine>>
  /\ Category(Read, pos) = "in-use-summary"
  /\ \A i \in 1..(pos - 5) : ~IsHeaderLine(Read[i])

\* What the scenario yields, but for the description.
ScenarioYields(description) ==
  /\ <<"1">> \in DOMAIN dataviewer.chart
  /\ dataviewer.chart[<<"1">>] =
       [title       |-> Some(<<"Memory Context with UID:", "1">>),
        description |-> Some(description)]
  /\ Series(<<"1">>) = <<Series(InuseKey)[Len(Series(InuseKey)) - 1], Whole(2)>>

\* A chart entry made by add_memcontext describes the callstack of the record
\* that made it, and every sample of a record is at its bytes / 1000.
DescriptionIsCallstack ==
  \A i \in Dispatched :
    /\ emitted[i].created =>
         dataviewer.chart[emitted[i].key].description = Some(CallstackOf(i))
    /\ emitted[i].y = Quot(emitted[i].memcontext.bytes, 1000)

\* C5 as claimed: the scenario yields the chart entry "1" with the title
\* "Memory Context with UID:1" and the description "foo\nbar\n", and the
\* series "1" equal to [elapsed_hours, 2.0].
C5_Original ==
  /\ ScenarioScanned => ScenarioYields(<<"foo", "\n", "bar", "\n">>)
  /\ DescriptionIsCallstack

\* C5 as amended: the description is "foo\nbar\n\n", the blank line that ends
\* the block being part of the callstack text.
C5_ScenarioDescription ==
  /\ ScenarioScanned => ScenarioYields(<<"foo", "\n", "bar", "\n", "\n">>)
  /\ DescriptionIsCallstack

\* The scenario has been scanned after a snapshot.
C5_Witness ==
  /\ ScenarioScanned
  /\ Read[1] = HeapSummary(Date2024)
  /\ dataviewer.info.uid_count = 1
  /\ Len(emitted) = 2

-----------------------------------------------------------------------------
(* Errors *)

\* C6: a snapshot-timestamp line whose date does not parse ends the scan at
\* that line with the error "Error parsing '<the date>'": no later line is
\* read, timestamp and min_ts are as before the line, nothing is written.
C6_DateErrorAborts ==
  LET stamps == StampsRead
  IN \A i \in LinesOf(Read, "snapshot-timestamp") :
       ~stamps[i].ok =>
         /\ i = pos
         /\ pc = "error"
         /\ error = Some(<<"Error parsing '">> \o Tail(Read[i]) \o <<"'">>)
         /\ fileout = None
         /\ timestamp = LastParsed(stamps, i - 1)
         /\ min_ts = BaselineOf(stamps, i - 1)

\* "HEAP SUMMARY garbage" was read after a snapshot and a context block.
C6_Witness ==
  /\ pc = "error"
  /\ Read[pos] = HeapSummary(<<"garbage">>)
  /\ error = Some(<<"Error parsing '", "garbage", "'">>)
  /\ timestamp = 1704067200
  /\ min_ts = 1704067200
  /\ memcontexts # << >>
  /\ fileout = None

-----------------------------------------------------------------------------
(* Two runs *)

-----------------------------------------------------------------------------
(* Context blocks, as the lines of the log delimit them *)

\* The lines that close a block: the blank lines read inside an open block.
Terminators(lines) ==
  LET categories == Classified(lines).categories
  IN {i \in 1..Len(lines) :
        categories[i] = "memory-context-body" /\ lines[i] = << >>}

\* The k-th member of a set of line numbers, in file order.
Kth(set, k) == CHOOSE i \in set : Cardinality({j \in set : j <= i}) = k

\* The header line a block closed at line t belongs to: the last one before t.
HeaderOf(lines, t) ==
  CHOOSE h \in 1..t :
    /\ IsHeaderLine(lines[h])
    /\ \A j \in (h + 1)..t : ~IsHeaderLine(lines[j])

\* The lines a..b, each followed by a newline, as one text.
RECURSIVE TextOf(_, _, _)
TextOf(lines, a, b) ==
  IF a > b THEN << >>
  ELSE (TextOf(lines, a, b - 1) \o lines[b]) \o <<"\n">>

\* The context records dispatched, in the order of the dispatches.
RECURSIVE ContextsOf(_)
ContextsOf(history) ==
  IF history = << >> THEN << >>
  ELSE ContextsOf(SubSeq(history, 1, Len(history) - 1)) \o
       (IF history[Len(history)].call = "add_memcontext"
        THEN <<history[Len(history)].memcontext>>
        ELSE << >>)

\* Every context record completed so far, in the order of completion: the
\* ones dispatched, then the ones pending.
Completed == ContextsOf(emitted) \o memcontexts

\* C11: a header line leaves the in-progress callstack empty, whether or not
\* a block was open, and the k-th completed record holds the allocs and bytes
\* of the last header before its blank line and, as callstack, only the lines
\* after that header.
C11_HeaderResetsCallstack ==
  /\ (pos >= 1 /\ IsHeaderLine(Read[pos])) => memcontext.callstack = << >>
  /\ LET terminators == Terminators(Read)
     IN \A k \in 1..Len(Completed) :
          LET t == Kth(terminators, k)
              h == HeaderOf(Read, t)
              captures == MemcontextCaptures(Read[h])
          IN Completed[k] = [allocs    |-> ParseUint(captures.g1),
                             bytes     |-> ParseUint(captures.g2),
                             callstack |-> TextOf(Read, h + 1, t)]

-----------------------------------------------------------------------------
(* The dispatch of completed contexts *)

\* C12: while no error has ended the scan, the k-th completed context is the
\* k-th one dispatched, it is dispatched by the first in-use-summary line
\* after its blank line and by no other line, at the elapsed time of that
\* line, it stays pending while no such line has been read, and nothing is
\* pending after an in-use-summary line.
C12_AttachedToNextInUse ==
  NoError =>
    LET categories  == Classified(Read).categories
        terminators == Terminators(Read)
        inuse       == {i \in 1..pos : categories[i] = "in-use-summary"}
        stamps      == StampsRead
        dispatched  == Dispatched
    IN /\ Len(Completed) = Cardinality(terminators)
       /\ \A k \in 1..Len(Completed) :
            LET t     == Kth(terminators, k)
                later == {u \in inuse : u > t}
            IN IF later = {} THEN k > Cardinality(dispatched)
               ELSE LET u == CHOOSE v \in later : \A w \in later : v <= w
                    IN /\ k <= Cardinality(dispatched)
                       /\ emitted[Kth(dispatched, k)].line = u
                       /\ emitted[Kth(dispatched, k)].x =
                            Quot(LastParsed(stamps, u) - BaselineOf(stamps, u), 3600)
       /\ (pos >= 1 /\ categories[pos] = "in-use-summary") => memcontexts = << >>

-----------------------------------------------------------------------------
(* The body of a context block *)

\* C13: while a block is open, a line that is not a header is only appended,
\* with a newline, to the in-progress callstack, whatever its prefix:
\* timestamp, min_ts, the document (series, charts, registry) and the error
\* are as before and the scan goes on; the blank line, so appended, moves the
\* record to the pending list, clears the open-block flag and does no more.
C13_BodyConsumed ==
  [][(pos' = pos + 1 /\ Classified(Read).open /\ ~IsHeaderLine(log'[pos']))
       => LET line  == log'[pos']
              grown == [memcontext EXCEPT !.callstack = (@ \o line) \o <<"\n">>]
          IN /\ timestamp' = timestamp
             /\ min_ts' = min_ts
             /\ dataviewer' = dataviewer
             /\ emitted' = emitted
             /\ error' = error
             /\ fileout' = fileout
             /\ pc' = "scan"
             /\ IF line = << >>
                THEN /\ memcontexts' = Append(memcontexts, grown)
                     /\ memcontext' = MemcontextDefault
                     /\ ~in_memcontext'
                ELSE /\ memcontexts' = memcontexts
                     /\ memcontext' = grown
                     /\ in_memcontext']_vars

\* A malformed snapshot line and an in-use line without a byte count were
\* read inside a block and the blank line closed it: they are in the callstack
\* of the pending record, and nothing else happened.
C13_Witness ==
  /\ pc = "scan"
  /\ pos = 4
  /\ ~in_memcontext
  /\ memcontexts =
       <<[allocs |-> 3, bytes |-> 2000,
          callstack |-> ((HeapSummary(<<"garbage">>) \o <<"\n">>)
                           \o (InUseNoBytes \o <<"\n">>)) \o <<"\n">>]>>
  /\ timestamp = 0
  /\ emitted = << >>
  /\ dataviewer = New

-----------------------------------------------------------------------------
(* The end of the input *)

\* The line has the prefix of an in-use line.
HasInUsePrefix(line) == StripPrefix(line, "    in use: ").some

\* C14: when the scan has come to the end of the input, no error was raised
\* and the document was written as it stood after the last line: its series
\* hold the samples pushed at in-use lines and nothing else, and its charts
\* and uids are those of the contexts dispatched there; a block left open and
\* contexts left pending have added no sample, no chart entry and no uid.
C14_LeftoversDropped ==
  pc = "done" =>
    LET callstacks == Callstacks
    IN /\ error = None
       /\ fileout = Some(Document(dataviewer))
       /\ \A i \in 1..Len(emitted) : HasInUsePrefix(Read[emitted[i].line])
       /\ DOMAIN dataviewer.data = {emitted[i].key : i \in 1..Len(emitted)}
       /\ \A key \in DOMAIN dataviewer.data :
            dataviewer.data[key] = PairsOf(emitted, key)
       /\ dataviewer.info.uid_count = Cardinality(callstacks)
       /\ DOMAIN dataviewer.info.uids = callstacks
       /\ DOMAIN dataviewer.chart =
            {InuseKey} \cup {FormatUint(k) : k \in 1..Cardinality(callstacks)}

\* The input ended with one context pending and a block open, after an
\* in-use line: the document written has the "inuse" sample and no uid.
C14_Witness ==
  /\ pc = "done"
  /\ in_memcontext
  /\ memcontext.callstack = <<"foo", "\n">>
  /\ memcontexts # << >>
  /\ dataviewer.info.uid_count = 0
  /\ DOMAIN dataviewer.chart = {InuseKey}
  /\ Len(Series(InuseKey)) = 2
  /\ fileout = Some(Document(dataviewer))

-----------------------------------------------------------------------------
(* An in-use line without a byte count *)

\* C15: an in-use-summary line whose remainder has no "<digits> bytes" ends
\* the run at that line: no later line is read, no sample is pushed for the
\* line, to "inuse" or for a pending context, the pending list and the
\* document are as before the line, and no document is written.
C15_MissingBytesAborts ==
  LET categories == Classified(Read).categories
  IN \A i \in 1..pos :
       (categories[i] = "in-use-summary" /\ ~BytesCaptures(Tail(Read[i])).matched)
         => /\ i = pos
            /\ pc = "panic"
            /\ fileout = None
            /\ \A j \in 1..Len(emitted) : emitted[j].line < i
            /\ \A key \in DOMAIN dataviewer.data :
                 dataviewer.data[key] = PairsOf(emitted, key)
            /\ Len(Completed) = Cardinality(Terminators(Read))

\* "    in use: none" was read while a context was pending, after an in-use
\* line that had recorded a sample.
C15_Witness ==
  /\ pc = "panic"
  /\ Read[pos] = InUseNoBytes
  /\ memcontexts # << >>
  /\ Len(Series(InuseKey)) = 2
  /\ Len(emitted) = 1
  /\ fileout = None

-----------------------------------------------------------------------------
(* The series *)

IsPrefix(s, t) == Len(s) <= Len(t) /\ SubSeq(t, 1, Len(s)) = s

\* C16: at every step each series is a prefix of what it is after the step,
\* no key is removed, and a series grows by exactly one pair for each push
\* made to its key, equal pairs included.
C16_AppendOnly ==
  [][\A key \in DOMAIN dataviewer.data \cup DOMAIN dataviewer'.data :
       LET before == IF key \in DOMAIN dataviewer.data
                     THEN dataviewer.data[key] ELSE << >>
           after  == IF key \in DOMAIN dataviewer'.data
                     THEN dataviewer'.data[key] ELSE << >>
           pushes == {i \in (Len(emitted) + 1)..Len(emitted') :
                        emitted'[i].key = key}
       IN /\ key \in DOMAIN dataviewer'.data
          /\ IsPrefix(before, after)
          /\ Len(after) = Len(before) + 2 * Cardinality(pushes)]_vars

\* Two contexts with the same callstack and byte count were dispatched by one
\* in-use line: the series of their uid holds the same pair twice.
C16_Witness ==
  /\ Series(<<"1">>) = <<Whole(0), Whole(2), Whole(0), Whole(2)>>
  /\ \E i, j \in Dispatched :
       /\ i < j
       /\ emitted[i].line = emitted[j].line
       /\ emitted[i].memcontext = emitted[j].memcontext

-----------------------------------------------------------------------------
(* The keys of the document *)

\* C17: after every line, the chart keys are "inuse" and the decimal strings
\* of 1..uid_count; the registry has uid_count entries and maps them one to
\* one onto 1..uid_count; every uid key has a series that is not empty; data
\* has the key "inuse" only when an in-use-summary line has been recorded;
\* every data key has a chart entry; and a log without a context header has
\* no chart but "inuse".
C17_KeyConsistency ==
  LET n          == dataviewer.info.uid_count
      uids       == dataviewer.info.uids
      categories == Classified(Read).categories
  IN /\ DOMAIN dataviewer.chart = {InuseKey} \cup {FormatUint(k) : k \in 1..n}
     /\ Cardinality(DOMAIN uids) = n
     /\ {uids[callstack] : callstack \in DOMAIN uids} = 1..n
     /\ \A k \in 1..n :
          /\ FormatUint(k) \in DOMAIN dataviewer.data
          /\ dataviewer.data[FormatUint(k)] # << >>
     /\ InuseKey \in DOMAIN dataviewer.data
          => \E i \in 1..pos :
               /\ categories[i] = "in-use-summary"
               /\ BytesCaptures(Tail(Read[i])).matched
     /\ DOMAIN dataviewer.data \subseteq DOMAIN dataviewer.chart
     /\ (\A i \in 1..pos : categories[i] # "memory-context-header")
          => DOMAIN dataviewer.chart = {InuseKey}

-----------------------------------------------------------------------------
(* The order of the samples of one in-use event *)

\* The lines a..b that are not headers, each followed by a newline.
RECURSIVE BodyText(_, _, _)
BodyText(lines, a, b) ==
  IF a > b THEN << >>
  ELSE BodyText(lines, a, b - 1) \o
       (IF IsHeaderLine(lines[b]) THEN << >> ELSE lines[b] \o <<"\n">>)

\* The callstack accumulated by the block closed at line t: the block opened
\* at the first header after the blank line that closed the block before.
BodyOf(lines, terminators, t) ==
  LET earlier == {s \in terminators : s < t}
      from    == IF earlier = {} THEN 0
                 ELSE CHOOSE s \in earlier : \A r \in earlier : r <= s
      headers == {h \in (from + 1)..t : IsHeaderLine(lines[h])}
      opened  == CHOOSE h \in headers : \A g \in headers : h <= g
  IN BodyText(lines, opened + 1, t)

\* C18: the samples of one line are pushed together, the "inuse" sample
\* first and then one sample for each pending context; the contexts are
\* dispatched in the order in which the file completed them, each by the
\* first event after its blank line; and all the samples of a line have the
\* x of that line, its timestamp minus its baseline in hours.
C18_EventOrder ==
  LET terminators == Terminators(Read)
      dispatched  == Dispatched
      stamps      == StampsRead
  IN /\ \A i \in 1..Len(emitted) :
          LET e == emitted[i]
          IN /\ e.x = Quot(LastParsed(stamps, e.line) - BaselineOf(stamps, e.line),
                           3600)
             /\ (i = 1 \/ emitted[i - 1].line # e.line)
                  <=> e.call = "add_inuse_summary"
             /\ i > 1 => /\ emitted[i - 1].line <= e.line
                         /\ emitted[i - 1].line = e.line => emitted[i - 1].x = e.x
             /\ IF e.call = "add_inuse_summary" THEN e.key = InuseKey
                ELSE e.key = FormatUint(dataviewer.info.uids[e.memcontext.callstack])
     /\ \A k \in 1..Cardinality(dispatched) :
          LET e == emitted[Kth(dispatched, k)]
              t == Kth(terminators, k)
          IN /\ e.memcontext.callstack = BodyOf(Read, terminators, t)
             /\ t < e.line
             /\ \A j \in 1..Len(emitted) : ~(t < emitted[j].line /\ emitted[j].line < e.line)
     /\ \A key \in DOMAIN dataviewer.data :
          dataviewer.data[key] = PairsOf(emitted, key)

\* One in-use line dispatched two contexts with different callstacks: the
\* "inuse" sample, then the context completed first, then the other one.
C18_Witness ==
  /\ Len(emitted) = 3
  /\ emitted[1].call = "add_inuse_summary"
  /\ emitted[2].memcontext.callstack = <<"\n">>
  /\ emitted[2].key = <<"1">>
  /\ emitted[3].memcontext.callstack = <<"foo", "\n", "\n">>
  /\ emitted[3].key = <<"2">>
  /\ emitted[1].line = emitted[3].line
  /\ Terminators(Read) = {2, 5}

-----------------------------------------------------------------------------
(* Time that does not go back *)

\* a <= b, of two f64 kept as fractions.
LessEq(a, b) == a.num * b.den <= b.num * a.den

\* The x values of a series do not decrease along it.
NonDecreasing(series) ==
  \A a, b \in 1..(Len(series) \div 2) :
    a < b => LessEq(series[2 * a - 1], series[2 * b - 1])

\* C19: when the timestamps of the snapshot-timestamp lines read do not
\* decrease in file order, every elapsed value is >= 0 and the x values of
\* every series do not decrease; in any case a timestamp before the baseline
\* gives a negative elapsed value and a negative x, and no error.
C19_MonotoneTime ==
  LET stamps   == StampsRead
      parsed   == {i \in 1..pos : stamps[i].ok}
      monotone == \A i, j \in parsed :
                    i < j => stamps[i].timestamp <= stamps[j].timestamp
  IN /\ monotone =>
          /\ \A i \in 1..Len(emitted) : emitted[i].elapsed_sec >= 0
          /\ \A key \in DOMAIN dataviewer.data :
               NonDecreasing(dataviewer.data[key])
     /\ \A i \in 1..Len(emitted) :
          LastParsed(stamps, emitted[i].line) < BaselineOf(stamps, emitted[i].line)
            => /\ emitted[i].elapsed_sec < 0
               /\ emitted[i].x.num < 0
     /\ NoError

\* An in-use line came before the first snapshot, the first snapshot was at
\* the epoch, and two later snapshots followed: the "inuse" series is at
\* 0.0, 0.0 and 2.0.
C19_Witness ==
  /\ pos = 6
  /\ Read[1] = InUseMillion
  /\ Read[2] = HeapSummary(DateEpoch)
  /\ min_ts = 1704067200
  /\ timestamp = 1704067200 + 7200
  /\ Series(InuseKey) =
       <<Whole(0), Whole(1000), Whole(0), Whole(1000), Whole(2), Whole(1000)>>

=============================================================================
